---- MODULE Spec2Model ----
(***************************************************************************)
(* finetune.py of PINO: the launcher (__main__) and the per-worker         *)
(* routine subprocess_fn(rank, args).                                      *)
(*                                                                         *)
(* The command line (--num_gpus) and the YAML configuration file are the   *)
(* inputs, drawn in Init.  Every worker is a sequential process that walks *)
(* through the statements of subprocess_fn; a statement that raises ends   *)
(* the worker (the script has no try/except).  Workers of a distributed    *)
(* run interleave freely.                                                  *)
(***************************************************************************)
EXTENDS Integers, Sequences, FiniteSets, TLC

\* ------------------------------------------------------------------ bounds
\* largest --num_gpus tried (the number of spawned workers)
MaxGpus == 2
\* largest number of Fourier layers of FNN3d (len(config['model']['layers']) - 1)
MaxLayers == 2

GpuChoices == (-1)..MaxGpus
LayerChoices == 0..MaxLayers
Ranks == 0..(MaxGpus - 1)

\* ---------------------------------------------------------- configuration
\* The keys the script looks up, "section" or "section.key".
DataKeys ==
    {"data.datapath", "data.nx", "data.nt", "data.sub", "data.sub_t",
     "data.total_num", "data.time_interval", "data.n_sample", "data.offset",
     "data.shuffle"}
TrainKeys ==
    {"train.batchsize", "train.base_lr", "train.milestones",
     "train.scheduler_gamma"}
ModelKeys ==
    {"model.modes1", "model.modes2", "model.modes3", "model.fc_dim",
     "model.layers"}
OthersKeys == {"others.project", "others.group"}
Sections == {"data", "train", "model", "others"}
RequiredKeys == Sections \cup DataKeys \cup TrainKeys \cup ModelKeys \cup OthersKeys
\* looked up only behind an `in` test
OptionalKeys == {"data.datapath2", "train.ckpt"}

NoKey == "<none>"

VARIABLES
    num_gpus,          \* args.num_gpus
    distributed,       \* args.distributed
    config,            \* the keys present in the YAML file
    layers,            \* number of Fourier layers the 'layers' entry asks for
    ddpExposes,        \* whether the data-parallel wrapper resolves the
                       \* wrapped module's attribute names
    mainPc,            \* position of the launcher
    spawned,           \* processes started by mp.spawn
    directCalls,       \* calls of subprocess_fn made by the launcher itself
    pc,                \* position of each worker
    trace,             \* the calls each worker has made, in order
    err,               \* the exception that ended the worker
    setupArgs,         \* arguments of setup(), once called
    loader,            \* keyword arguments of NSLoader(...), once built
    train_loader,      \* DataLoader(...), once built
    model,             \* the FNN3d object (and its wrapper), once built
    params_to_update,  \* the list filled at lines 78-81
    optimizer,         \* Adam(...), once built
    scheduler,         \* MultiStepLR(...), once built
    trainArgs          \* what train(...) was called with

mainVars == <<num_gpus, distributed, config, layers, ddpExposes, mainPc,
              spawned, directCalls>>
objVars == <<setupArgs, loader, train_loader, model, params_to_update,
             optimizer, scheduler, trainArgs>>
vars == <<mainVars, pc, trace, err, objVars>>

\* An object that does not exist yet is <<>>, an existing one is <<obj>>.
None == <<>>
Some(x) == <<x>>
IsSome(o) == Len(o) = 1
Get(o) == o[1]

NoErr == <<"", "">>

\* ------------------------------------------------------------------ FNN3d
\* Sub-modules in registration order: fc0, sp_convs[0..L-1], ws[0..L-1],
\* fc1, fc2.  A sub-module is <<name, position in its ModuleList>>.
sp_convs(L) == [i \in 1..L |-> <<"sp_convs", i>>]
ws(L) == [i \in 1..L |-> <<"ws", i>>]
fc0 == <<"fc0", 0>>
fc1 == <<"fc1", 0>>
fc2 == <<"fc2", 0>>

Modules(L) == <<fc0>> \o sp_convs(L) \o ws(L) \o <<fc1, fc2>>

\* Every sub-module holds a weight and a bias tensor.
ModuleParameters(m) == << <<m[1], m[2], "weight">>, <<m[1], m[2], "bias">> >>

RECURSIVE Flatten(_)
Flatten(ss) == IF ss = <<>> THEN <<>> ELSE Head(ss) \o Flatten(Tail(ss))

\* model.parameters(): the parameters of the sub-modules, in order.
Parameters(L) == Flatten([i \in 1..Len(Modules(L)) |-> ModuleParameters(Modules(L)[i])])

Range(s) == {s[i] : i \in 1..Len(s)}

\* Python's seq[i] for a negative or non-negative i: the 1-based position,
\* or 0 when it raises IndexError.
PyIndex(len, i) ==
    LET p == IF i < 0 THEN len + i + 1 ELSE i + 1
    IN  IF p \in 1..len THEN p ELSE 0

\* train_utils.utils.requires_grad(module, flag) on the flags rg.
requires_grad(rg, moduleParams, flag) ==
    [p \in DOMAIN rg |-> IF p \in moduleParams THEN flag ELSE rg[p]]

\* ------------------------------------------------------- lookups, lines 30-96
\* config[k] raises KeyError when k is absent; a statement evaluates its
\* lookups in order, so the first absent key is the one reported.
FirstMissingDefault(cfg, keys) == NoKey

FirstMissing(cfg, keys) ==
    IF \E i \in 1..Len(keys) : keys[i] \notin cfg
    THEN keys[CHOOSE i \in 1..Len(keys) :
                 /\ keys[i] \notin cfg
                 /\ \A j \in 1..(i - 1) : keys[j] \in cfg]
    ELSE NoKey

\* line 111
DistributedFlagInclusive(n) == n >= 1

DistributedFlag(n) == n > 1

\* line 31 and line 60: the two `in` tests
HasDatapath2(cfg) == "data.datapath2" \in cfg

HasCkptAlways(cfg) == TRUE

HasCkpt(cfg) == "train.ckpt" \in cfg

\* ------------------------------------------------ the statements, in order
\* The positions of subprocess_fn, each named after the statement a worker
\* executes next; "in_train" is inside the call of train.
OrderTrainFirst ==
    <<"start", "config", "loader", "trainloader", "model", "ckpt", "ddp",
      "freeze", "optimizer", "train", "in_train", "scheduler", "finish",
      "done">>

Order ==
    <<"start", "config", "loader", "trainloader", "model", "ckpt", "ddp",
      "freeze", "optimizer", "scheduler", "train", "in_train", "finish",
      "done">>

After(p) == Order[(CHOOSE i \in 1..Len(Order) : Order[i] = p) + 1]

Terminal == {"done", "error"}

\* ------------------------------------------------------------------- Init
Init ==
    /\ num_gpus \in GpuChoices
    /\ distributed = FALSE
    /\ \E k \in RequiredKeys \cup {NoKey}, opt \in SUBSET OptionalKeys :
          config = (RequiredKeys \ {k}) \cup opt
    /\ layers \in LayerChoices
    /\ ddpExposes \in BOOLEAN
    /\ mainPc = "parse_args"
    /\ spawned = 0
    /\ directCalls = 0
    /\ pc = [r \in Ranks |-> "idle"]
    /\ trace = [r \in Ranks |-> <<>>]
    /\ err = [r \in Ranks |-> NoErr]
    /\ setupArgs = [r \in Ranks |-> None]
    /\ loader = [r \in Ranks |-> None]
    /\ train_loader = [r \in Ranks |-> None]
    /\ model = [r \in Ranks |-> None]
    /\ params_to_update = [r \in Ranks |-> <<>>]
    /\ optimizer = [r \in Ranks |-> None]
    /\ scheduler = [r \in Ranks |-> None]
    /\ trainArgs = [r \in Ranks |-> None]

\* --------------------------------------------------------------- launcher
\* lines 110-111
ParseArgs ==
    /\ mainPc = "parse_args"
    /\ distributed' = DistributedFlag(num_gpus)
    /\ mainPc' = "dispatch"
    /\ UNCHANGED <<num_gpus, config, layers, ddpExposes, spawned, directCalls,
                   pc, trace, err, objVars>>

SpawnRanksFromOne(n) == 1..n

\* mp.spawn(fn, nprocs=n) starts fn(i, *args) for i in range(n)
SpawnRanks(n) == 0..(n - 1)

\* lines 113-114
Spawn ==
    /\ mainPc = "dispatch"
    /\ distributed
    /\ spawned' = Cardinality(SpawnRanks(num_gpus))
    /\ pc' = [r \in Ranks |-> IF r \in SpawnRanks(num_gpus) THEN "start" ELSE pc[r]]
    /\ mainPc' = "join"
    /\ UNCHANGED <<num_gpus, distributed, config, layers, ddpExposes,
                   directCalls, trace, err, objVars>>

\* lines 115-116
RunInline ==
    /\ mainPc = "dispatch"
    /\ ~distributed
    /\ directCalls' = directCalls + 1
    /\ pc' = [pc EXCEPT ![0] = "start"]
    /\ mainPc' = "join"
    /\ UNCHANGED <<num_gpus, distributed, config, layers, ddpExposes,
                   spawned, trace, err, objVars>>

\* mp.spawn joins its processes; the direct call returns or raises.
MainExit ==
    /\ mainPc = "join"
    /\ \A r \in Ranks : pc[r] \in Terminal \cup {"idle"}
    /\ mainPc' = "exit"
    /\ UNCHANGED <<num_gpus, distributed, config, layers, ddpExposes,
                   spawned, directCalls, pc, trace, err, objVars>>

\* ---------------------------------------------------------------- workers
\* The worker's statement returned: record its calls and move on.
Advance(r, calls) ==
    /\ pc' = [pc EXCEPT ![r] = After(pc[r])]
    /\ trace' = [trace EXCEPT ![r] = @ \o calls]
    /\ err' = err

\* The worker's statement raised after making `calls`: nothing catches it.
Raise(r, calls, e) ==
    /\ pc' = [pc EXCEPT ![r] = "error"]
    /\ trace' = [trace EXCEPT ![r] = @ \o calls \o <<"raise">>]
    /\ err' = [err EXCEPT ![r] = e]

\* A statement whose lookups are `keys`: KeyError on the first absent one.
KeyError(keys) == <<"KeyError", FirstMissing(config, keys)>>
AllPresent(keys) == FirstMissing(config, keys) = NoKey

\* lines 21-23
Enter(r) ==
    /\ pc[r] = "start"
    /\ IF distributed
       THEN /\ setupArgs' = [setupArgs EXCEPT ![r] = Some(<<r, num_gpus>>)]
            /\ Advance(r, <<"setup", "print_running">>)
       ELSE /\ setupArgs' = setupArgs
            /\ Advance(r, <<"print_running">>)
    /\ UNCHANGED <<mainVars, loader, train_loader, model, params_to_update,
                   optimizer, scheduler, trainArgs>>

\* lines 25-27: open() and yaml.load() return, or raise
LoadConfig(r) ==
    /\ pc[r] = "config"
    /\ \/ Advance(r, <<"yaml.load">>)
       \/ Raise(r, <<>>, <<"OSError", "config_path">>)
    /\ UNCHANGED <<mainVars, objVars>>

\* lines 32-42: the keyword arguments of NSLoader, each with the key of
\* data_config it is read from
LoaderArgsDropSubT(withDatapath2) ==
    IF withDatapath2
    THEN [a \in {"datapath1", "datapath2", "nx", "nt", "sub", "sub_t", "N", "t_interval"} |->
            CASE a = "datapath1" -> "data.datapath"
              [] a = "datapath2" -> "data.datapath2"
              [] a = "nx" -> "data.nx"
              [] a = "nt" -> "data.nt"
              [] a = "sub" -> "data.sub"
              [] a = "sub_t" -> "data.sub_t"
              [] a = "N" -> "data.total_num"
              [] a = "t_interval" -> "data.time_interval"]
    ELSE [a \in {"datapath1", "nx", "nt", "sub", "N", "t_interval"} |->
            CASE a = "datapath1" -> "data.datapath"
              [] a = "nx" -> "data.nx"
              [] a = "nt" -> "data.nt"
              [] a = "sub" -> "data.sub"
              [] a = "N" -> "data.total_num"
              [] a = "t_interval" -> "data.time_interval"]

LoaderArgs(withDatapath2) ==
    [a \in {"datapath1", "nx", "nt", "sub", "sub_t", "N", "t_interval"}
           \cup (IF withDatapath2 THEN {"datapath2"} ELSE {}) |->
        CASE a = "datapath1" -> "data.datapath"
          [] a = "datapath2" -> "data.datapath2"
          [] a = "nx" -> "data.nx"
          [] a = "nt" -> "data.nt"
          [] a = "sub" -> "data.sub"
          [] a = "sub_t" -> "data.sub_t"
          [] a = "N" -> "data.total_num"
          [] a = "t_interval" -> "data.time_interval"]

\* the lookups of lines 30-42, in evaluation order
LoaderKeys(withDatapath2) ==
    <<"data", "data.datapath">>
    \o (IF withDatapath2 THEN <<"data.datapath2">> ELSE <<>>)
    \o <<"data.nx", "data.nt", "data.sub", "data.sub_t", "data.total_num",
         "data.time_interval">>

\* The lookups made by the statement at position p, in evaluation order.
Lookups(p, cfg) ==
    CASE p = "loader" -> LoaderKeys(HasDatapath2(cfg))
      [] p = "trainloader" ->
            <<"data.n_sample", "data.offset", "data.shuffle",
              "train", "train.batchsize", "data.shuffle">>
      [] p = "model" ->
            <<"model", "model.modes1", "model.modes2", "model.modes3",
              "model.fc_dim", "model.layers">>
      [] p = "optimizer" -> <<"train.base_lr">>
      [] p = "scheduler" -> <<"train.milestones", "train.scheduler_gamma">>
      [] p = "train" -> <<"others", "others.project", "others.group">>
      [] OTHER -> <<>>

\* lines 29-42
BuildLoader(r) ==
    /\ pc[r] = "loader"
    /\ LET keys == Lookups("loader", config)
       IN  IF AllPresent(keys)
           THEN /\ loader' = [loader EXCEPT ![r] = Some(LoaderArgs(HasDatapath2(config)))]
                /\ Advance(r, <<"NSLoader">>)
           ELSE /\ loader' = loader
                /\ Raise(r, <<>>, KeyError(keys))
    /\ UNCHANGED <<mainVars, setupArgs, train_loader, model, params_to_update,
                   optimizer, scheduler, trainArgs>>

\* lines 44-51
BuildTrainLoader(r) ==
    /\ pc[r] = "trainloader"
    /\ LET keys == Lookups("trainloader", config)
       IN  IF AllPresent(keys)
           THEN /\ train_loader' = [train_loader EXCEPT ![r] = Some(
                       [dataset |-> <<"data.n_sample", "data.offset", "data.shuffle">>,
                        batch_size |-> "train.batchsize",
                        shuffle |-> "data.shuffle",
                        distributed |-> distributed,
                        drop_last |-> TRUE])]
                /\ Advance(r, <<"make_dataset", "data_sampler", "DataLoader">>)
           ELSE /\ train_loader' = train_loader
                /\ Raise(r, <<>>, KeyError(keys))
    /\ UNCHANGED <<mainVars, setupArgs, loader, model, params_to_update,
                   optimizer, scheduler, trainArgs>>

\* lines 53-58: a fresh model; torch creates parameters with requires_grad
\* set
ConstructModel(r) ==
    /\ pc[r] = "model"
    /\ LET keys == Lookups("model", config)
       IN  IF AllPresent(keys)
           THEN /\ model' = [model EXCEPT ![r] = Some(
                       [params |-> Parameters(layers),
                        requires_grad |-> [p \in Range(Parameters(layers)) |-> TRUE],
                        layers |-> layers,
                        weights |-> "init",
                        ddp |-> FALSE])]
                /\ Advance(r, <<"FNN3d">>)
           ELSE /\ model' = model
                /\ Raise(r, <<>>, KeyError(keys))
    /\ UNCHANGED <<mainVars, setupArgs, loader, train_loader, params_to_update,
                   optimizer, scheduler, trainArgs>>

\* lines 60-64: torch.load and load_state_dict return, or raise
LoadCkpt(r) ==
    /\ pc[r] = "ckpt"
    /\ IF HasCkpt(config)
       THEN \/ /\ model' = [model EXCEPT ![r] = Some([Get(@) EXCEPT !.weights = "ckpt"])]
               /\ Advance(r, <<"torch.load", "load_state_dict", "print_loaded">>)
            \/ /\ model' = model
               /\ Raise(r, <<"torch.load">>, <<"LoadError", "train.ckpt">>)
       ELSE /\ model' = model
            /\ Advance(r, <<>>)
    /\ UNCHANGED <<mainVars, setupArgs, loader, train_loader, params_to_update,
                   optimizer, scheduler, trainArgs>>

\* lines 66-67
WrapDDP(r) ==
    /\ pc[r] = "ddp"
    /\ IF distributed
       THEN /\ model' = [model EXCEPT ![r] = Some([Get(@) EXCEPT !.ddp = TRUE])]
            /\ Advance(r, <<"DDP">>)
       ELSE /\ model' = model
            /\ Advance(r, <<>>)
    /\ UNCHANGED <<mainVars, setupArgs, loader, train_loader, params_to_update,
                   optimizer, scheduler, trainArgs>>

UnfrozenModulesFirst(L) ==
    <<sp_convs(L)[PyIndex(L, 0)], ws(L)[PyIndex(L, 0)], fc1, fc2>>

\* lines 74-77: the sub-modules re-enabled, in order
UnfrozenModules(L) ==
    <<sp_convs(L)[PyIndex(L, -1)], ws(L)[PyIndex(L, -1)], fc1, fc2>>

RECURSIVE EnableAll(_, _)
EnableAll(rg, mods) ==
    IF mods = <<>> THEN rg
    ELSE EnableAll(requires_grad(rg, Range(ModuleParameters(Head(mods))), TRUE),
                   Tail(mods))

\* lines 73-77.  Line 73 always runs.  Line 74 looks sp_convs up on `model`,
\* which is the wrapper in a distributed run, and indexes it with -1.
\* torch.nn.parallel.DistributedDataParallel resolves its own attributes and
\* `module` only, so the lookup raises AttributeError (ddpExposes = FALSE);
\* ddpExposes = TRUE is a wrapper that forwards the lookup to the wrapped
\* module.  An empty sp_convs makes the index raise IndexError.
Freeze(r) ==
    /\ pc[r] = "freeze"
    /\ LET m == Get(model[r])
           frozen == requires_grad(m.requires_grad, Range(m.params), FALSE)
       IN  IF m.ddp /\ ~ddpExposes
           THEN /\ model' = [model EXCEPT ![r] = Some([m EXCEPT !.requires_grad = frozen])]
                /\ Raise(r, <<"requires_grad">>, <<"AttributeError", "sp_convs">>)
           ELSE IF PyIndex(m.layers, -1) = 0
           THEN /\ model' = [model EXCEPT ![r] = Some([m EXCEPT !.requires_grad = frozen])]
                /\ Raise(r, <<"requires_grad">>, <<"IndexError", "sp_convs">>)
           ELSE /\ model' = [model EXCEPT ![r] = Some([m EXCEPT !.requires_grad =
                                  EnableAll(frozen, UnfrozenModules(m.layers))])]
                /\ Advance(r, <<"requires_grad">>)
    /\ UNCHANGED <<mainVars, setupArgs, loader, train_loader, params_to_update,
                   optimizer, scheduler, trainArgs>>

CollectEverything(params, rg) == params

\* lines 78-81
RECURSIVE Collect(_, _)
Collect(params, rg) ==
    IF params = <<>> THEN <<>>
    ELSE (IF rg[Head(params)] = TRUE THEN <<Head(params)>> ELSE <<>>)
         \o Collect(Tail(params), rg)

\* lines 78-84
BuildOptimizer(r) ==
    /\ pc[r] = "optimizer"
    /\ LET m == Get(model[r])
           collected == Collect(m.params, m.requires_grad)
           keys == Lookups("optimizer", config)
       IN  /\ params_to_update' = [params_to_update EXCEPT ![r] = collected]
           /\ IF AllPresent(keys)
              THEN /\ optimizer' = [optimizer EXCEPT ![r] = Some(
                          [params |-> collected, lr |-> "train.base_lr", owner |-> r])]
                   /\ Advance(r, <<"Adam">>)
              ELSE /\ optimizer' = optimizer
                   /\ Raise(r, <<>>, KeyError(keys))
    /\ UNCHANGED <<mainVars, setupArgs, loader, train_loader, model,
                   scheduler, trainArgs>>

\* lines 85-87
BuildScheduler(r) ==
    /\ pc[r] = "scheduler"
    /\ LET keys == Lookups("scheduler", config)
       IN  IF AllPresent(keys)
           THEN /\ scheduler' = [scheduler EXCEPT ![r] = Some(
                       [optimizer |-> optimizer[r],
                        milestones |-> "train.milestones",
                        gamma |-> "train.scheduler_gamma"])]
                /\ Advance(r, <<"MultiStepLR">>)
           ELSE /\ scheduler' = scheduler
                /\ Raise(r, <<>>, KeyError(keys))
    /\ UNCHANGED <<mainVars, setupArgs, loader, train_loader, model,
                   params_to_update, optimizer, trainArgs>>

\* lines 88-97: the arguments are evaluated, then train is entered
CallTrain(r) ==
    /\ pc[r] = "train"
    /\ LET keys == Lookups("train", config)
       IN  IF AllPresent(keys)
           THEN /\ trainArgs' = [trainArgs EXCEPT ![r] = Some(
                       [optimizer |-> optimizer[r],
                        scheduler |-> scheduler[r],
                        rank |-> r,
                        project |-> "others.project",
                        group |-> "others.group"])]
                /\ Advance(r, <<"get_forcing", "train">>)
           ELSE /\ trainArgs' = trainArgs
                /\ Raise(r, <<"get_forcing">>, KeyError(keys))
    /\ UNCHANGED <<mainVars, setupArgs, loader, train_loader, model,
                   params_to_update, optimizer, scheduler>>

\* train returns, or raises
TrainEnds(r) ==
    /\ pc[r] = "in_train"
    /\ \/ Advance(r, <<"train_return">>)
       \/ Raise(r, <<>>, <<"TrainError", "train">>)
    /\ UNCHANGED <<mainVars, objVars>>

FinishCallsAlwaysCleanup(d) == <<"cleanup", "print_done">>

\* lines 99-101
FinishCalls(d) == IF d THEN <<"cleanup", "print_done">> ELSE <<"print_done">>

Finish(r) ==
    /\ pc[r] = "finish"
    /\ Advance(r, FinishCalls(distributed))
    /\ UNCHANGED <<mainVars, objVars>>

subprocess_fn(r) ==
    \/ Enter(r)
    \/ LoadConfig(r)
    \/ BuildLoader(r)
    \/ BuildTrainLoader(r)
    \/ ConstructModel(r)
    \/ LoadCkpt(r)
    \/ WrapDDP(r)
    \/ Freeze(r)
    \/ BuildOptimizer(r)
    \/ BuildScheduler(r)
    \/ CallTrain(r)
    \/ TrainEnds(r)
    \/ Finish(r)

Next ==
    \/ ParseArgs
    \/ Spawn
    \/ RunInline
    \/ MainExit
    \/ \E r \in Ranks : subprocess_fn(r)

Spec == Init /\ [][Next]_vars

\* ================================================================ claims
Count(t, e) == Cardinality({i \in 1..Len(t) : t[i] = e})
Has(t, e) == \E i \in 1..Len(t) : t[i] = e
\* every e in t comes after some a
Before(t, a, e) ==
    \A i \in 1..Len(t) : t[i] = e => \E j \in 1..(i - 1) : t[j] = a
Project(t, S) == SelectSeq(t, LAMBDA e : e \in S)

C1Steps ==
    {"yaml.load", "NSLoader", "DataLoader", "FNN3d", "load_state_dict",
     "requires_grad", "Adam", "MultiStepLR", "train"}

\* C1: a worker that completes has made each of the steps parse, build the
\* data loader, construct the model (and load the checkpoint when
\* configured), freeze, build the optimizer, build the scheduler and call
\* train exactly once and in this order; in every state train has been
\* called at most once and only with an existing optimizer and scheduler,
\* both built before the call.
C1_StepOrder ==
    \A r \in Ranks :
        /\ Count(trace[r], "train") <= 1
        /\ Before(trace[r], "Adam", "train")
        /\ Before(trace[r], "MultiStepLR", "train")
        /\ Before(trace[r], "Adam", "MultiStepLR")
        /\ IsSome(trainArgs[r]) =>
              /\ IsSome(Get(trainArgs[r]).optimizer)
              /\ IsSome(Get(trainArgs[r]).scheduler)
        /\ pc[r] = "done" =>
              Project(trace[r], C1Steps) =
                 <<"yaml.load", "NSLoader", "DataLoader", "FNN3d">>
                 \o (IF "train.ckpt" \in config THEN <<"load_state_dict">> ELSE <<>>)
                 \o <<"requires_grad", "Adam", "MultiStepLR", "train">>

C1_Witness ==
    \E r \in Ranks : pc[r] = "done" /\ "train.ckpt" \in config

\* C2: once the launcher has dispatched, the run is distributed exactly when
\* num_gpus > 1; then num_gpus processes were spawned, the workers are the
\* ranks 0..num_gpus-1 and each one's first call is setup(rank, num_gpus);
\* otherwise nothing was spawned and subprocess_fn was called once, as rank
\* 0, and never calls setup.
C2_Dispatch ==
    LET started == {r \in Ranks : pc[r] # "idle"}
    IN  IF mainPc \in {"join", "exit"}
        THEN /\ distributed <=> (num_gpus > 1)
             /\ num_gpus > 1 =>
                   /\ spawned = num_gpus
                   /\ directCalls = 0
                   /\ started = 0..(num_gpus - 1)
                   /\ \A r \in started :
                         trace[r] # <<>> =>
                            /\ trace[r][1] = "setup"
                            /\ setupArgs[r] = Some(<<r, num_gpus>>)
             /\ num_gpus <= 1 =>
                   /\ spawned = 0
                   /\ directCalls = 1
                   /\ started = {0}
                   /\ ~Has(trace[0], "setup")
                   /\ setupArgs[0] = None
        ELSE started = {} /\ spawned = 0 /\ directCalls = 0

C2_Witness ==
    /\ num_gpus = MaxGpus
    /\ \A r \in Ranks : IsSome(setupArgs[r]) /\ pc[r] = "config"

ExternalFailures == {"OSError", "LoadError", "TrainError"}

\* C3 (as claimed): in a distributed run with every required key present and
\* at least one Fourier layer, a worker fails only when an external library
\* call fails (reading the file, loading the checkpoint, train itself); the
\* freezing step applied to the wrapped model does not end the worker.
C3_DistributedWorkerReachesTrain ==
    \A r \in Ranks :
        (distributed /\ RequiredKeys \subseteq config /\ layers >= 1
            /\ pc[r] = "error")
        => err[r][1] \in ExternalFailures

PassedPositions(p) ==
    {Order[i] : i \in 1..((CHOOSE j \in 1..Len(Order) : Order[j] = p) - 1)}

ForwardLayers(L) ==
    <<{fc0}>> \o [i \in 1..L |-> {sp_convs(L)[i], ws(L)[i]}] \o <<{fc1}, {fc2}>>

LastTwoLayers(L) ==
    ForwardLayers(L)[Len(ForwardLayers(L)) - 1] \cup ForwardLayers(L)[Len(ForwardLayers(L))]

ModuleOf(p) == <<p[1], p[2]>>

\* C5 (as claimed): when the optimizer exists, every parameter outside the
\* last two layers of the model is frozen and is not among the optimizer's
\* parameters.
C5_OnlyLastTwoLayers ==
    \A r \in Ranks :
        IsSome(optimizer[r]) =>
            \A p \in Range(Get(model[r]).params) :
                ModuleOf(p) \notin LastTwoLayers(Get(model[r]).layers) =>
                    /\ Get(model[r]).requires_grad[p] = FALSE
                    /\ p \notin Range(Get(optimizer[r]).params)

FreezeDone(r) ==
    /\ Has(trace[r], "requires_grad")
    /\ err[r][1] \notin {"AttributeError", "IndexError"}

\* C6: once the freezing step has completed, the parameters with
\* requires_grad set are exactly those of sp_convs[-1], ws[-1], fc1 and fc2
\* (the model has at least one Fourier layer, checkpoint or not), and this
\* stays so in every later position of the worker.
C6_FreezeExact ==
    \A r \in Ranks :
        FreezeDone(r) =>
            LET m == Get(model[r])
                L == m.layers
            IN  /\ L >= 1
                /\ {p \in DOMAIN m.requires_grad : m.requires_grad[p] = TRUE}
                     = {p \in Range(m.params) :
                           ModuleOf(p) \in {<<"sp_convs", L>>, <<"ws", L>>,
                                            <<"fc1", 0>>, <<"fc2", 0>>}}

C6_Witness ==
    \E r \in Ranks :
        /\ FreezeDone(r)
        /\ pc[r] = "in_train"
        /\ Get(model[r]).layers = MaxLayers
        /\ Get(model[r]).weights = "ckpt"

PosIn(seq, x) == CHOOSE i \in 1..Len(seq) : seq[i] = x

\* C7: the optimizer's parameter list is params_to_update, and it is the
\* sub-sequence of model.parameters() with requires_grad set: only trainable
\* parameters, each of them exactly once, in model.parameters() order; the
\* scheduler, once built, holds that optimizer.
C7_ParamsToUpdate ==
    \A r \in Ranks :
        /\ IsSome(optimizer[r]) =>
              LET m == Get(model[r])
                  ps == Get(optimizer[r]).params
              IN  /\ ps = params_to_update[r]
                  /\ \A i \in 1..Len(ps) :
                        /\ ps[i] \in Range(m.params)
                        /\ m.requires_grad[ps[i]] = TRUE
                  /\ \A p \in Range(m.params) :
                        m.requires_grad[p] = TRUE =>
                           Cardinality({i \in 1..Len(ps) : ps[i] = p}) = 1
                  /\ \A i, j \in 1..Len(ps) :
                        i < j => PosIn(m.params, ps[i]) < PosIn(m.params, ps[j])
        /\ IsSome(scheduler[r]) =>
              /\ IsSome(optimizer[r])
              /\ Get(scheduler[r]).optimizer = optimizer[r]

C7_Witness ==
    \E r \in Ranks :
        /\ IsSome(scheduler[r])
        /\ Len(Get(optimizer[r]).params) < Len(Get(model[r]).params)
        /\ Len(Get(optimizer[r]).params) > 0

PastCkpt(r) ==
    /\ IsSome(model[r])
    /\ pc[r] # "ckpt"
    /\ err[r][1] # "LoadError"

\* C8: a worker attempts the checkpoint load only when 'ckpt' is a key of
\* config['train'], at most once, after the model is constructed and before
\* the wrap, the freezing step and the optimizer; a worker that got past
\* lines 60-64 has checkpoint weights exactly when the key is present, and
\* until the freezing step every parameter still has requires_grad set,
\* loaded or not.
C8_CheckpointLoad ==
    \A r \in Ranks :
        /\ Has(trace[r], "torch.load") => "train.ckpt" \in config
        /\ Count(trace[r], "torch.load") <= 1
        /\ Before(trace[r], "FNN3d", "torch.load")
        /\ \A e \in {"DDP", "requires_grad", "Adam"} :
              Has(trace[r], e) /\ "train.ckpt" \in config =>
                 /\ Has(trace[r], "load_state_dict")
                 /\ Before(trace[r], "load_state_dict", e)
                 /\ ~Before(trace[r], e, "load_state_dict")
        /\ PastCkpt(r) =>
              (Get(model[r]).weights = "ckpt" <=> "train.ckpt" \in config)
        /\ IsSome(model[r]) /\ "train.ckpt" \notin config =>
              Get(model[r]).weights = "init"
        /\ IsSome(model[r]) /\ ~Has(trace[r], "requires_grad") =>
              \A p \in DOMAIN Get(model[r]).requires_grad :
                 Get(model[r]).requires_grad[p] = TRUE

C8_Witness ==
    \E r \in Ranks :
        /\ Has(trace[r], "load_state_dict")
        /\ Has(trace[r], "Adam")
        /\ Get(model[r]).weights = "ckpt"

\* C9: every worker has called setup at most once and cleanup at most as
\* often as setup; a worker of a non-distributed run calls neither; in a
\* distributed run setup is the worker's first call and cleanup directly
\* follows the return of train; a worker that ended in an error has not
\* called cleanup.
C9_SetupCleanup ==
    \A r \in Ranks :
        /\ Count(trace[r], "setup") <= 1
        /\ Count(trace[r], "cleanup") <= Count(trace[r], "setup")
        /\ ~distributed => ~Has(trace[r], "setup") /\ ~Has(trace[r], "cleanup")
        /\ distributed /\ trace[r] # <<>> => trace[r][1] = "setup"
        /\ \A i \in 1..Len(trace[r]) :
              trace[r][i] = "cleanup" => i > 1 /\ trace[r][i - 1] = "train_return"
        /\ pc[r] = "error" => ~Has(trace[r], "cleanup")

C9_Witness ==
    \E r \in Ranks :
        /\ pc[r] = "error"
        /\ Has(trace[r], "setup")
        /\ IsSome(model[r])

CommonLoaderArgs ==
    [a \in {"datapath1", "nx", "nt", "sub", "sub_t", "N", "t_interval"} |->
        CASE a = "datapath1" -> "data.datapath"
          [] a = "nx" -> "data.nx"
          [] a = "nt" -> "data.nt"
          [] a = "sub" -> "data.sub"
          [] a = "sub_t" -> "data.sub_t"
          [] a = "N" -> "data.total_num"
          [] a = "t_interval" -> "data.time_interval"]

ExpectedCalls(p, d, ckpt) ==
    CASE p = "start" -> (IF d THEN <<"setup">> ELSE <<>>) \o <<"print_running">>
      [] p = "config" -> <<"yaml.load">>
      [] p = "loader" -> <<"NSLoader">>
      [] p = "trainloader" -> <<"make_dataset", "data_sampler", "DataLoader">>
      [] p = "model" -> <<"FNN3d">>
      [] p = "ckpt" -> IF ckpt THEN <<"torch.load", "load_state_dict", "print_loaded">>
                       ELSE <<>>
      [] p = "ddp" -> IF d THEN <<"DDP">> ELSE <<>>
      [] p = "freeze" -> <<"requires_grad">>
      [] p = "optimizer" -> <<"Adam">>
      [] p = "scheduler" -> <<"MultiStepLR">>
      [] p = "train" -> <<"get_forcing", "train">>
      [] p = "in_train" -> <<"train_return">>
      [] p = "finish" -> (IF d THEN <<"cleanup">> ELSE <<>>) \o <<"print_done">>

ExpectedTrace(p, d, ckpt) ==
    LET n == (CHOOSE j \in 1..Len(Order) : Order[j] = p) - 1
    IN  Flatten([i \in 1..n |-> ExpectedCalls(Order[i], d, ckpt)])

\* C10: NSLoader gets datapath2 exactly when 'datapath2' is a key of
\* config['data'], and gets datapath1, nx, nt, sub, sub_t, N and t_interval
\* from the same keys either way; the sampler's distributed flag is
\* num_gpus > 1; the calls a worker has made up to its position are those
\* of the statements before it, which depend on the distributed flag and on
\* 'ckpt' only.
C10_Datapath2 ==
    \A r \in Ranks :
        /\ IsSome(loader[r]) =>
              LET given == Get(loader[r])
              IN  /\ "datapath2" \in DOMAIN given <=> "data.datapath2" \in config
                  /\ "datapath2" \in DOMAIN given => given["datapath2"] = "data.datapath2"
                  /\ DOMAIN CommonLoaderArgs \subseteq DOMAIN given
                  /\ \A a \in DOMAIN CommonLoaderArgs : given[a] = CommonLoaderArgs[a]
                  /\ DOMAIN given \subseteq DOMAIN CommonLoaderArgs \cup {"datapath2"}
        /\ IsSome(train_loader[r]) =>
              Get(train_loader[r]).distributed = (num_gpus > 1)
        /\ pc[r] \notin {"idle", "error"} =>
              trace[r] = ExpectedTrace(pc[r], num_gpus > 1, "train.ckpt" \in config)

C10_Witness ==
    \E r \in Ranks :
        /\ IsSome(trainArgs[r])
        /\ "datapath2" \in DOMAIN Get(loader[r])

====
